---- MODULE Spec2Model ----
(***************************************************************************)
(* Multi-segment packing of keras-nlp's BERT and RoBERTa preprocessors.    *)
(*                                                                         *)
(* RobertaMultiSegmentPacker (roberta_preprocessor.py) trims a list of     *)
(* ragged segment batches with a tf_text trimmer, joins them with          *)
(* start/end values and pads the rows to sequence_length.                  *)
(* BertPreprocessor (bert_preprocessor.py) delegates to                    *)
(* keras_nlp.layers.MultiSegmentPacker, whose code is not part of the      *)
(* sources at hand: that packer (one end value per segment, plus segment   *)
(* ids) is modelled from the written specification.                        *)
(***************************************************************************)
EXTENDS Integers, Sequences, FiniteSets, TLC

VARIABLES
    pc,           \* "new" | "built" | "done" | "error"
    err,          \* "" or the name of the exception raised
    config,       \* the constructor arguments as given
    packer,       \* the constructed packer (NoPacker before / on failure)
    inputs,       \* the argument of call: one (ragged) batch per segment
    rank_1,       \* TRUE when call received rank-1 tensors (no batch dim)
    segments,     \* result of _trim_inputs
    combined,     \* result of _combine_inputs (ragged rows)
    token_ids,    \* returned token ids (None before the call returns)
    segment_ids   \* returned segment ids (MultiSegmentPacker only)

vars == <<pc, err, config, packer, inputs, rank_1, segments, combined,
          token_ids, segment_ids>>

(***************************************************************************)
(* Bounds of the explored inputs.                                          *)
(***************************************************************************)
MaxSegs == 3
MaxLen == 3
MaxBatch == 2
MaxSeqLen == 10

(***************************************************************************)
(* Small helpers.                                                          *)
(***************************************************************************)
Min(a, b) == IF a <= b THEN a ELSE b

Max(a, b) == IF a >= b THEN a ELSE b

RECURSIVE SumTo(_, _)
SumTo(f, k) == IF k = 0 THEN 0 ELSE f[k] + SumTo(f, k - 1)

Sum(f) == SumTo(f, Len(f))

None == <<"None">>

Roberta == "RobertaMultiSegmentPacker"

Bert == "MultiSegmentPacker"

NoConfig ==
    [cls |-> "", sequence_length |-> 0, truncate |-> "",
     start_value |-> 0, end_value |-> 0, pad_value |-> 0]

NoPacker == NoConfig

(***************************************************************************)
(* Inputs of the constructors and of call.                                 *)
(***************************************************************************)
TruncateArgs == {"round_robin", "waterfall", "longest_first"}

\* The special token ids of the tokenizer each preprocessor hands to its packer.
SpecialTokens(cls) ==
    IF cls = "MultiSegmentPacker"
    THEN [start_value |-> 1, end_value |-> 2, pad_value |-> 0]
    ELSE [start_value |-> 9, end_value |-> 8, pad_value |-> 0]

Configs ==
    { [cls |-> c, sequence_length |-> n, truncate |-> t,
       start_value |-> SpecialTokens(c).start_value,
       end_value |-> SpecialTokens(c).end_value,
       pad_value |-> SpecialTokens(c).pad_value] :
        c \in {Roberta, Bert}, n \in 1..MaxSeqLen, t \in TruncateArgs }

\* Token p of segment s (1-based) under a content palette: "distinct" gives
\* 5,6,7.. / 8,9,10.. / 11,12,.. and "constant" repeats s (which collides with
\* the special values 1 and 2).
Token(palette, s, p) ==
    IF palette = "distinct" THEN 3 * s + 1 + p ELSE s

Segment(palette, s, n) == [p \in 1..n |-> Token(palette, s, p)]

\* Row b of a batch built from the length vector lens: the lengths rotated by
\* b - 1 segment positions, so that the rows of one batch differ.
RowLens(lens, b) ==
    [s \in 1..Len(lens) |-> lens[((s + b - 2) % Len(lens)) + 1]]

LenVectors == UNION { [1..S -> 0..MaxLen] : S \in 1..MaxSegs }

\* A call argument of rank 2: inputs[s][b] is the token sequence of segment s
\* of example b.
BatchInput(palette, lens, n) ==
    [s \in 1..Len(lens) |->
        [b \in 1..n |-> Segment(palette, s, RowLens(lens, b)[s])]]

\* A call argument of rank 1: inputs[s] is the token sequence of segment s.
Rank1Input(palette, lens) ==
    [s \in 1..Len(lens) |-> Segment(palette, s, lens[s])]

(***************************************************************************)
(* tf_text trimmers, as _trim_inputs uses them.  Each works on the row     *)
(* lengths of one example and yields the number of leading items kept      *)
(* per segment.  Neither trimmer rejects a negative budget: both then keep *)
(* nothing.                                                                *)
(***************************************************************************)
\* "Available space is assigned one token at a time in a round-robin
\* fashion to the inputs that still need some, until the limit is reached."
RECURSIVE RoundRobinAllocation(_, _, _, _)
RoundRobinAllocation(row_lengths, dist, i, quota_used_left) ==
    IF quota_used_left <= 0
          \/ \A k \in 1..Len(row_lengths) : dist[k] >= row_lengths[k]
    THEN dist
    ELSE LET index == (i % Len(row_lengths)) + 1 IN
         IF dist[index] < row_lengths[index]
         THEN RoundRobinAllocation(row_lengths,
                                   [dist EXCEPT ![index] = @ + 1],
                                   i + 1, quota_used_left - 1)
         ELSE RoundRobinAllocation(row_lengths, dist, i + 1, quota_used_left)

\* Variant: the last unit of the budget is never handed out.
RoundRobinOffByOne(max_seq_length, row_lengths) ==
    RoundRobinAllocation(row_lengths, [k \in 1..Len(row_lengths) |-> 0],
                         0, max_seq_length - 1)

\* Variant: the cycle starts at the second segment.
RoundRobinFromSecond(max_seq_length, row_lengths) ==
    RoundRobinAllocation(row_lengths, [k \in 1..Len(row_lengths) |-> 0],
                         1, max_seq_length)

\* Variant: one unit more than the budget is handed out.
RoundRobinOverBudget(max_seq_length, row_lengths) ==
    RoundRobinAllocation(row_lengths, [k \in 1..Len(row_lengths) |-> 0],
                         0, max_seq_length + 1)

RoundRobinTrimmer(max_seq_length, row_lengths) ==
    RoundRobinAllocation(row_lengths, [k \in 1..Len(row_lengths) |-> 0],
                         0, max_seq_length)

\* "allocates quota in a left-to-right manner and fills up the buckets
\* until we run out of budget": length + min(budget - cumsum, 0), floored at 0.
\* Variant: the cumulative sum excludes the segment itself.
WaterfallExclusiveCumsum(max_seq_length, row_lengths) ==
    [k \in 1..Len(row_lengths) |->
        Max(row_lengths[k]
              + Min(max_seq_length - SumTo(row_lengths, k - 1), 0), 0)]

\* Variant: the running budget is not carried from segment to segment.
WaterfallNoCarry(max_seq_length, row_lengths) ==
    [k \in 1..Len(row_lengths) |-> Min(row_lengths[k], Max(max_seq_length, 0))]

WaterfallTrimmer(max_seq_length, row_lengths) ==
    [k \in 1..Len(row_lengths) |->
        Max(row_lengths[k]
              + Min(max_seq_length - SumTo(row_lengths, k), 0), 0)]

\* The items a trimmer selects: the first n of the segment.
\* Variant: the last n items are selected.
LastNItems(seg, n) == SubSeq(seg, Len(seg) - n + 1, Len(seg))

FirstNItems(seg, n) == SubSeq(seg, 1, n)

\* Row lengths of example b over all segments.
RowLengths(ragged, b) == [s \in 1..Len(ragged) |-> Len(ragged[s][b])]

\* trimmer.trim(inputs): every segment of every example cut to its allocation.
Trim(truncate, budget, ragged) ==
    LET keep == [b \in 1..Len(ragged[1]) |->
                    IF truncate = "round_robin"
                    THEN RoundRobinTrimmer(budget, RowLengths(ragged, b))
                    ELSE WaterfallTrimmer(budget, RowLengths(ragged, b))]
    IN [s \in 1..Len(ragged) |->
           [b \in 1..Len(ragged[s]) |-> FirstNItems(ragged[s][b], keep[b][s])]]

(***************************************************************************)
(* RobertaMultiSegmentPacker.                                              *)
(***************************************************************************)
\* Variant: the constructor accepts any strategy name.
TruncateAny(truncate) == truncate = truncate

TruncateSupported(truncate) == truncate \in {"round_robin", "waterfall"}

\* Variant: one start value and one end value per segment are reserved.
NumSpecialSingleEnd(ragged) == Len(ragged) + 1

\* num_special_tokens = 2 * len(inputs)
NumSpecialTokens(ragged) == 2 * Len(ragged)

TrimInputs(self, ragged) ==
    Trim(self.truncate, self.sequence_length - NumSpecialTokens(ragged), ragged)

Column(batch_size, value) == [b \in 1..batch_size |-> <<value>>]

\* Variant: one end value between two segments.
RECURSIVE SegmentsSingleEnd(_, _, _)
SegmentsSingleEnd(self, segs, i) ==
    IF i > Len(segs) THEN <<>>
    ELSE LET batch_size == Len(segs[1])
             start_column == Column(batch_size, self.start_value)
             end_column == Column(batch_size, self.end_value)
         IN (IF i = 1 THEN <<start_column>> ELSE <<>>)
               \o <<segs[i], end_column>> \o SegmentsSingleEnd(self, segs, i + 1)

RECURSIVE SegmentsToCombine(_, _, _)
SegmentsToCombine(self, segs, i) ==
    IF i > Len(segs) THEN <<>>
    ELSE LET batch_size == Len(segs[1])
             start_column == Column(batch_size, self.start_value)
             end_column == Column(batch_size, self.end_value)
         IN << IF i = 1 THEN start_column ELSE end_column,
               segs[i],
               end_column >> \o SegmentsToCombine(self, segs, i + 1)

\* tf.concat(columns, 1), row b.
RECURSIVE ConcatRow(_, _)
ConcatRow(columns, b) ==
    IF columns = <<>> THEN <<>>
    ELSE columns[1][b] \o ConcatRow(Tail(columns), b)

CombineInputs(self, segs) ==
    LET cols == SegmentsToCombine(self, segs, 1)
    IN [b \in 1..Len(segs[1]) |-> ConcatRow(cols, b)]

\* Variant: rows are cut to width but short rows are left as they are.
ToTensorNoPad(ragged, width, default_value) ==
    [b \in 1..Len(ragged) |-> SubSeq(ragged[b], 1, Min(width, Len(ragged[b])))]

\* RaggedTensor.to_tensor(shape=[-1, width], default_value): every row is cut
\* or filled on the right to exactly width entries.
ToTensor(ragged, width, default_value) ==
    [b \in 1..Len(ragged) |->
        [j \in 1..width |->
            IF j <= Len(ragged[b]) THEN ragged[b][j] ELSE default_value]]

\* tf.RaggedTensor.from_tensor(x[tf.newaxis, :])
to_ragged(x) == <<x>>

AddBatchDim(x, r1) == IF r1 THEN [s \in 1..Len(x) |-> to_ragged(x[s])] ELSE x

\* tf.squeeze(t, 0) when the batch dim was added.
Squeeze(t, r1) == IF r1 THEN t[1] ELSE t

(***************************************************************************)
(* keras_nlp.layers.MultiSegmentPacker (used by BertPreprocessor): one     *)
(* start value, then every segment followed by one end value; segment ids  *)
(* number the segments from 0 and are 0 on padding.                        *)
(***************************************************************************)
\* one start value and one end value per segment
BertNumSpecialTokens(ragged) == Len(ragged) + 1

BertTrimInputs(self, ragged) ==
    Trim(self.truncate, self.sequence_length - BertNumSpecialTokens(ragged),
         ragged)

RECURSIVE BertRow(_, _, _, _)
BertRow(self, segs, b, i) ==
    IF i > Len(segs) THEN <<>>
    ELSE (IF i = 1 THEN <<self.start_value>> ELSE <<>>)
            \o segs[i][b] \o <<self.end_value>>
            \o BertRow(self, segs, b, i + 1)

BertCombineInputs(self, segs) ==
    [b \in 1..Len(segs[1]) |-> BertRow(self, segs, b, 1)]

RECURSIVE BertIdRow(_, _, _)
BertIdRow(segs, b, i) ==
    IF i > Len(segs) THEN <<>>
    ELSE [j \in 1..(Len(segs[i][b]) + (IF i = 1 THEN 2 ELSE 1)) |-> i - 1]
            \o BertIdRow(segs, b, i + 1)

BertCombineIds(segs) ==
    [b \in 1..Len(segs[1]) |-> BertIdRow(segs, b, 1)]

(***************************************************************************)
(* The state machine: construct a packer, then call it on one input.       *)
(***************************************************************************)
Init ==
    /\ pc = "new"
    /\ err = ""
    /\ config = NoConfig
    /\ packer = NoPacker
    /\ inputs = <<>>
    /\ rank_1 = FALSE
    /\ segments = <<>>
    /\ combined = <<>>
    /\ token_ids = None
    /\ segment_ids = None

\* RobertaMultiSegmentPacker.__init__
RobertaInit(cfg) ==
    /\ pc = "new"
    /\ cfg.cls = Roberta
    /\ config' = cfg
    /\ IF TruncateSupported(cfg.truncate)
       THEN /\ packer' = cfg
            /\ pc' = "built"
            /\ err' = ""
       ELSE /\ packer' = NoPacker
            /\ pc' = "error"
            /\ err' = "ValueError"
    /\ UNCHANGED <<inputs, rank_1, segments, combined, token_ids, segment_ids>>

\* BertPreprocessor.__init__ building its MultiSegmentPacker
BertInit(cfg) ==
    /\ pc = "new"
    /\ cfg.cls = Bert
    /\ config' = cfg
    /\ IF TruncateSupported(cfg.truncate)
       THEN /\ packer' = cfg
            /\ pc' = "built"
            /\ err' = ""
       ELSE /\ packer' = NoPacker
            /\ pc' = "error"
            /\ err' = "ConfigurationError"
    /\ UNCHANGED <<inputs, rank_1, segments, combined, token_ids, segment_ids>>

\* RobertaMultiSegmentPacker.call
RobertaCall(x, r1) ==
    /\ pc = "built"
    /\ packer.cls = Roberta
    /\ inputs' = x
    /\ rank_1' = r1
    /\ IF packer.truncate \in {"round_robin", "waterfall"}
       THEN LET ragged == AddBatchDim(x, r1)
                segs == TrimInputs(packer, ragged)
                comb == CombineInputs(packer, segs)
                dense == ToTensor(comb, packer.sequence_length,
                                  packer.pad_value)
            IN /\ segments' = segs
               /\ combined' = comb
               /\ token_ids' = Squeeze(dense, r1)
               /\ pc' = "done"
               /\ err' = ""
       ELSE \* _trim_inputs: raise ValueError("Unsupported truncate")
            /\ pc' = "error"
            /\ err' = "ValueError"
            /\ UNCHANGED <<segments, combined, token_ids>>
    /\ UNCHANGED <<config, packer, segment_ids>>

\* BertPreprocessor.call, after tokenization: token_ids, segment_ids = packer(x)
BertCall(x, r1) ==
    /\ pc = "built"
    /\ packer.cls = Bert
    /\ inputs' = x
    /\ rank_1' = r1
    /\ LET ragged == AddBatchDim(x, r1) IN
       IF packer.sequence_length - BertNumSpecialTokens(ragged) < 0
       THEN /\ pc' = "error"
            /\ err' = "ConfigurationError"
            /\ UNCHANGED <<segments, combined, token_ids, segment_ids>>
       ELSE LET segs == BertTrimInputs(packer, ragged)
                comb == BertCombineInputs(packer, segs)
                ids == BertCombineIds(segs)
            IN /\ segments' = segs
               /\ combined' = comb
               /\ token_ids' = Squeeze(ToTensor(comb, packer.sequence_length,
                                                packer.pad_value), r1)
               /\ segment_ids' = Squeeze(ToTensor(ids, packer.sequence_length,
                                                  0), r1)
               /\ pc' = "done"
               /\ err' = ""
    /\ UNCHANGED <<config, packer>>

\* The "distinct" palette with every length vector; the "constant" palette
\* with segments of at most one token.
Shapes ==
    { <<"distinct", lens>> : lens \in LenVectors }
        \cup { <<"constant", lens>> :
                   lens \in { v \in LenVectors : \A s \in DOMAIN v : v[s] <= 1 } }

CallInputs(r1) ==
    IF r1
    THEN { Rank1Input(sh[1], sh[2]) : sh \in Shapes }
    ELSE { BatchInput(sh[1], sh[2], n) : sh \in Shapes, n \in 1..MaxBatch }

Next ==
    \/ \E cfg \in Configs : RobertaInit(cfg)
    \/ \E cfg \in Configs : BertInit(cfg)
    \/ \E r1 \in BOOLEAN : \E x \in CallInputs(r1) : RobertaCall(x, r1)
    \/ \E r1 \in BOOLEAN : \E x \in CallInputs(r1) : BertCall(x, r1)

Spec == Init /\ [][Next]_vars

(***************************************************************************)
(* Views of the state used by the properties.                              *)
(***************************************************************************)
Called == inputs # <<>>

Done == pc = "done"

InRagged == AddBatchDim(inputs, rank_1)

OutRows(t) == IF rank_1 THEN <<t>> ELSE t

NumSegs == Len(inputs)

Examples == 1..Len(InRagged[1])

RobertaBudget == packer.sequence_length - 2 * NumSegs

IsPrefix(a, b) ==
    /\ Len(a) <= Len(b)
    /\ \A j \in 1..Len(a) : a[j] = b[j]

PadTo(row, n, v) == row \o [j \in 1..(n - Len(row)) |-> v]

Kept(b) == [s \in 1..NumSegs |-> Len(segments[s][b])]

Given(b) == [s \in 1..NumSegs |-> Len(InRagged[s][b])]

Count(row, v) == Cardinality({ j \in 1..Len(row) : row[j] = v })

\* start, t_0, then (end, end, t_i) for i = 1..S-1, then one end.
RECURSIVE DoubleEndTail(_, _, _)
DoubleEndTail(b, i, end) ==
    IF i > NumSegs THEN <<end>>
    ELSE <<end, end>> \o segments[i][b] \o DoubleEndTail(b, i + 1, end)

DoubleEndRow(b) ==
    <<packer.start_value>> \o segments[1][b]
        \o DoubleEndTail(b, 2, packer.end_value)

\* start, t_0, end, t_1, end, ..., t_{S-1}, end.
RECURSIVE SingleEndTail(_, _, _)
SingleEndTail(b, i, end) ==
    IF i > NumSegs THEN <<>>
    ELSE segments[i][b] \o <<end>> \o SingleEndTail(b, i + 1, end)

SingleEndRow(b) ==
    <<packer.start_value>> \o SingleEndTail(b, 1, packer.end_value)

(***************************************************************************)
(* C1: every row the RoBERTa packer returns for S >= 1 segments and        *)
(* sequence_length >= 2*S has exactly sequence_length entries, under       *)
(* either truncate strategy and whatever the segment lengths (empty        *)
(* segments, segments longer than sequence_length); the batch keeps its    *)
(* number of examples.                                                     *)
(***************************************************************************)
C1_RowLength ==
    (Done /\ packer.cls = Roberta /\ packer.sequence_length >= 2 * NumSegs)
        => /\ Len(OutRows(token_ids)) = Len(InRagged[1])
           /\ \A b \in Examples :
                 Len(OutRows(token_ids)[b]) = packer.sequence_length

C1_Witness ==
    /\ Done
    /\ packer.cls = Roberta
    /\ packer.sequence_length >= 2 * NumSegs
    /\ \E s \in 1..NumSegs : \E b \in Examples :
          Len(InRagged[s][b]) > packer.sequence_length
    /\ Len(OutRows(token_ids)[1]) = packer.sequence_length

(***************************************************************************)
(* C2: in the double-end-token packer the combined row of every example    *)
(* is start_value, t_0, (end_value, end_value, t_i) for i = 1..S-1, one    *)
(* end_value -- 2*S inserted values whatever the content -- and, when      *)
(* sequence_length >= 2*S, the returned row is that row followed by        *)
(* pad_value up to sequence_length.  Segments [1],[2],[3] with start 9,    *)
(* end 8, pad 0 and sequence_length 10 give [9,1,8,8,2,8,8,3,8,0].         *)
(***************************************************************************)
C2_Scenario ==
    /\ packer.cls = Roberta
    /\ packer.sequence_length = 10
    /\ packer.start_value = 9 /\ packer.end_value = 8 /\ packer.pad_value = 0
    /\ InRagged = << <<<<1>>>>, <<<<2>>>>, <<<<3>>>> >>

C3_Scenario ==
    /\ packer.cls = Bert
    /\ packer.sequence_length = 8
    /\ packer.start_value = 1 /\ packer.end_value = 2 /\ packer.pad_value = 0
    /\ InRagged = << <<<<5, 6, 7>>>>, <<<<8, 9>>>> >>

C3_SingleEndLayout ==
    (Done /\ packer.cls = Bert)
        => /\ \A b \in Examples :
                 /\ Len(SingleEndRow(b)) <= packer.sequence_length
                 /\ OutRows(token_ids)[b]
                       = PadTo(SingleEndRow(b), packer.sequence_length,
                               packer.pad_value)
                 /\ Sum(Given(b)) + NumSegs + 1 <= packer.sequence_length
                       => \A s \in 1..NumSegs :
                             segments[s][b] = InRagged[s][b]
           /\ C3_Scenario
                 => /\ OutRows(token_ids)[1] = <<1, 5, 6, 7, 2, 8, 9, 2>>
                    /\ OutRows(segment_ids)[1] = <<0, 0, 0, 0, 0, 1, 1, 1>>

C3_Witness ==
    /\ Done
    /\ C3_Scenario
    /\ packer.truncate = "round_robin"
    /\ rank_1
    /\ token_ids = <<1, 5, 6, 7, 2, 8, 9, 2>>
    /\ segment_ids = <<0, 0, 0, 0, 0, 1, 1, 1>>

(***************************************************************************)
(* C4: with truncate = waterfall and budget B >= 0, in every example       *)
(* segment k keeps exactly its first min(len(seg_k), B - lengths kept by   *)
(* the segments before k) tokens; once the running budget is zero every    *)
(* later segment is empty, and segment i+1 is empty whenever segment i     *)
(* alone consumes the full budget.                                         *)
(***************************************************************************)
C4_Waterfall ==
    (Done /\ packer.cls = Roberta /\ packer.truncate = "waterfall"
          /\ RobertaBudget >= 0)
        => \A b \in Examples : \A k \in 1..NumSegs :
              LET before == SumTo(Kept(b), k - 1) IN
              /\ Kept(b)[k] = Min(Given(b)[k], RobertaBudget - before)
              /\ IsPrefix(segments[k][b], InRagged[k][b])
              /\ before = RobertaBudget => Kept(b)[k] = 0
              /\ (k > 1 /\ Given(b)[k - 1] >= RobertaBudget)
                    => Kept(b)[k] = 0

C4_Witness ==
    /\ Done
    /\ packer.cls = Roberta
    /\ packer.truncate = "waterfall"
    /\ RobertaBudget = 2
    /\ NumSegs = 3
    /\ Given(1) = <<1, 3, 2>>
    /\ Kept(1) = <<1, 1, 0>>

(***************************************************************************)
(* C5: with truncate = round_robin and budget B >= 0, in every example     *)
(* the kept lengths are those of handing out the budget one token at a     *)
(* time, cycling through the segments in order and skipping the segments   *)
(* already whole, until the budget is used up or nothing is left: each     *)
(* segment keeps a prefix, the kept total is min(B, total), no segment     *)
(* that lost tokens is more than one token behind any other, and of two    *)
(* segments the earlier one gets the extra token.                          *)
(***************************************************************************)
C5_RoundRobin ==
    (Done /\ packer.cls = Roberta /\ packer.truncate = "round_robin"
          /\ RobertaBudget >= 0)
        => \A b \in Examples :
              /\ \A k \in 1..NumSegs :
                    /\ Kept(b)[k] <= Given(b)[k]
                    /\ IsPrefix(segments[k][b], InRagged[k][b])
              /\ Sum(Kept(b)) = Min(RobertaBudget, Sum(Given(b)))
              /\ \A i, j \in 1..NumSegs :
                    Kept(b)[i] < Given(b)[i]
                       => /\ Kept(b)[j] <= Kept(b)[i] + 1
                          /\ i < j => Kept(b)[j] <= Kept(b)[i]

C5_Witness ==
    /\ Done
    /\ packer.cls = Roberta
    /\ packer.truncate = "round_robin"
    /\ RobertaBudget = 3
    /\ Given(1) = <<3, 3>>
    /\ Kept(1) = <<2, 1>>

(***************************************************************************)
(* C6: for both strategies and every budget B = sequence_length - 2*S >= 0 *)
(* the trimmer returns as many segments and examples as it received, every *)
(* returned segment is a prefix of its input segment, and in every example *)
(* the returned lengths sum to min(B, sum of the input lengths) <= B.      *)
(***************************************************************************)
C6_TrimShape ==
    (Done /\ packer.cls = Roberta /\ RobertaBudget >= 0)
        => /\ Len(segments) = Len(InRagged)
           /\ \A s \in 1..NumSegs :
                 /\ Len(segments[s]) = Len(InRagged[s])
                 /\ \A b \in Examples :
                       IsPrefix(segments[s][b], InRagged[s][b])
           /\ \A b \in Examples :
                 /\ Sum(Kept(b)) <= RobertaBudget
                 /\ Sum(Kept(b)) = Min(RobertaBudget, Sum(Given(b)))

C6_Witness ==
    /\ Done
    /\ packer.cls = Roberta
    /\ RobertaBudget >= 1
    /\ Len(InRagged[1]) = 2
    /\ Sum(Given(1)) > RobertaBudget
    /\ Sum(Kept(1)) = RobertaBudget
    /\ \E s \in 1..NumSegs :
          /\ Kept(1)[s] >= 1
          /\ Kept(1)[s] < Given(1)[s]

(***************************************************************************)
(* C7: constructing a RoBERTa packer with a truncate value other than      *)
(* "round_robin" or "waterfall" raises at construction time and leaves no  *)
(* packer that could process a batch; with either recognized value the     *)
(* construction succeeds.                                                  *)
(***************************************************************************)
C7_Construction ==
    (pc # "new" /\ config.cls = Roberta)
        => IF config.truncate \in {"round_robin", "waterfall"}
           THEN /\ packer = config
                /\ pc \in {"built", "done"}
           ELSE /\ pc = "error"
                /\ err = "ValueError"
                /\ packer = NoPacker
                /\ ~Called
                /\ token_ids = None

C7_Witness ==
    /\ pc = "error"
    /\ err = "ValueError"
    /\ config.cls = Roberta
    /\ config.truncate = "longest_first"
    /\ packer = NoPacker

(***************************************************************************)
(* C8: a call with S segments on a RoBERTa packer whose sequence_length is *)
(* smaller than 2*S raises a configuration error and returns no output.    *)
(***************************************************************************)
C8_NegativeBudgetFails ==
    (Called /\ packer.cls = Roberta /\ packer.sequence_length < 2 * NumSegs)
        => /\ pc = "error"
           /\ err = "ValueError"
           /\ token_ids = None

(***************************************************************************)
(* C9: single-end-token packer, truncate = waterfall, segments             *)
(* [5,6,7],[8,9], start 1, end 2, pad 0, sequence_length 6: the budget is  *)
(* 6 - 3 = 3, segment 0 keeps [5,6,7], segment 1 keeps nothing and the     *)
(* token ids are [1,5,6,7,2,2].                                            *)
(***************************************************************************)
C9_Scenario ==
    /\ Called
    /\ packer.cls = Bert
    /\ packer.truncate = "waterfall"
    /\ packer.sequence_length = 6
    /\ packer.start_value = 1 /\ packer.end_value = 2 /\ packer.pad_value = 0
    /\ InRagged = << <<<<5, 6, 7>>>>, <<<<8, 9>>>> >>

C9_WaterfallScenario ==
    C9_Scenario
        => /\ Done
           /\ packer.sequence_length - BertNumSpecialTokens(InRagged) = 3
           /\ segments = << <<<<5, 6, 7>>>>, <<<<>>>> >>
           /\ OutRows(token_ids) = << <<1, 5, 6, 7, 2, 2>> >>

C9_Witness ==
    /\ C9_Scenario
    /\ Done
    /\ ~rank_1
    /\ token_ids = << <<1, 5, 6, 7, 2, 2>> >>

(***************************************************************************)
(* C10 as stated: in the single-end-token packer every segment-id row,     *)
(* rows ending in padding included, is non-decreasing, and id i occurs     *)
(* len(trimmed segment i) + 1 times for i >= 1 and len(trimmed segment 0)  *)
(* + 2 times for i = 0.                                                    *)
(***************************************************************************)
NonDecreasing(row) == \A j \in 1..(Len(row) - 1) : row[j] <= row[j + 1]

C10_WholeRowMonotonic ==
    (Done /\ packer.cls = Bert)
        => \A b \in Examples :
              LET ids == OutRows(segment_ids)[b] IN
              /\ NonDecreasing(ids)
              /\ \A s \in 1..NumSegs :
                    Count(ids, s - 1)
                       = Kept(b)[s] + (IF s = 1 THEN 2 ELSE 1)

(***************************************************************************)
(* C10 amended: in every segment-id row the first n = (kept tokens) + S    *)
(* + 1 positions (the packed tokens, which always fit in the row) are      *)
(* non-decreasing and carry id i exactly len(trimmed segment i) + 1 times  *)
(* for i >= 1 and len(trimmed segment 0) + 2 times for i = 0; every        *)
(* padding position after them carries id 0.                               *)
(***************************************************************************)
C10_PackedPartMonotonic ==
    (Done /\ packer.cls = Bert)
        => \A b \in Examples :
              LET ids == OutRows(segment_ids)[b]
                  n == Sum(Kept(b)) + NumSegs + 1
              IN
              /\ Len(ids) = packer.sequence_length
              /\ n <= Len(ids)
              /\ NonDecreasing(SubSeq(ids, 1, n))
              /\ \A s \in 1..NumSegs :
                    Count(SubSeq(ids, 1, n), s - 1)
                       = Kept(b)[s] + (IF s = 1 THEN 2 ELSE 1)
              /\ \A j \in (n + 1)..Len(ids) : ids[j] = 0

C10_Witness ==
    /\ Done
    /\ packer.cls = Bert
    /\ NumSegs = 3
    /\ Kept(1) = <<1, 2, 1>>
    /\ OutRows(segment_ids)[1] = <<0, 0, 0, 1, 1, 1, 2, 2, 0, 0>>

(***************************************************************************)
(* The two written descriptions of round_robin, on the lengths of one      *)
(* example.                                                                *)
(***************************************************************************)
\* (1) scan the segments left to right, removing one token from the end of
\* each non-empty segment, until the kept total equals the budget or all
\* segments are empty; kept is the current length vector, k the scan position.
RECURSIVE ScanRemove(_, _, _)
ScanRemove(kept, k, budget) ==
    IF Sum(kept) <= budget \/ \A s \in 1..Len(kept) : kept[s] = 0
    THEN kept
    ELSE LET next == (k % Len(kept)) + 1 IN
         IF kept[k] > 0
         THEN ScanRemove([kept EXCEPT ![k] = @ - 1], next, budget)
         ELSE ScanRemove(kept, next, budget)

DescribedByRemoval(lens, budget) == ScanRemove(lens, 1, budget)

\* (2) hand out the budget in rounds: in round r every segment longer than
\* r - 1 gets one token, in order, while budget is left.
RECURSIVE AssignRound(_, _, _, _)
AssignRound(lens, r, k, left) ==
    IF left <= 0 \/ \A s \in 1..Len(lens) : lens[s] < r
    THEN [s \in 1..Len(lens) |-> 0]
    ELSE LET rest == IF k = Len(lens)
                     THEN AssignRound(lens, r + 1, 1,
                                      IF lens[k] >= r THEN left - 1 ELSE left)
                     ELSE AssignRound(lens, r, k + 1,
                                      IF lens[k] >= r THEN left - 1 ELSE left)
         IN IF lens[k] >= r THEN [rest EXCEPT ![k] = @ + 1] ELSE rest

DescribedByAssignment(lens, budget) == AssignRound(lens, 1, 1, budget)

(***************************************************************************)
(* C11 as stated: for every example and budget, removing one token per     *)
(* non-empty segment in left-to-right scans (1) and assigning the budget   *)
(* one token at a time in a cycle (2) give the same kept length for every  *)
(* segment.                                                                *)
(***************************************************************************)
C11_DescriptionsAgree ==
    (Done /\ packer.cls = Roberta /\ packer.truncate = "round_robin"
          /\ RobertaBudget >= 0)
        => \A b \in Examples :
              DescribedByRemoval(Given(b), RobertaBudget)
                 = DescribedByAssignment(Given(b), RobertaBudget)

(***************************************************************************)
(* C11 amended: the round_robin trimmer keeps, for every segment of every  *)
(* example and every budget B >= 0, the length of description (2).         *)
(* Description (1) keeps the same total, and the same length per segment   *)
(* when there is one segment, when the input fits the budget or when the   *)
(* budget is zero; otherwise it may differ, since removal takes from the   *)
(* earlier segments first while assignment gives to them first.            *)
(***************************************************************************)
C11_AssignmentIsTheTrimmer ==
    (Done /\ packer.cls = Roberta /\ packer.truncate = "round_robin"
          /\ RobertaBudget >= 0)
        => \A b \in Examples :
              LET removal == DescribedByRemoval(Given(b), RobertaBudget)
                  assignment == DescribedByAssignment(Given(b), RobertaBudget)
              IN
              /\ Kept(b) = assignment
              /\ Sum(removal) = Sum(Kept(b))
              /\ (NumSegs = 1 \/ Sum(Given(b)) <= RobertaBudget
                     \/ RobertaBudget = 0)
                    => removal = Kept(b)

C11_Witness ==
    /\ Done
    /\ packer.cls = Roberta
    /\ packer.truncate = "round_robin"
    /\ RobertaBudget = 2
    /\ Given(1) = <<3, 1>>
    /\ Kept(1) = <<1, 1>>
    /\ DescribedByAssignment(Given(1), RobertaBudget) = <<1, 1>>
    /\ DescribedByRemoval(Given(1), RobertaBudget) = <<2, 0>>

(***************************************************************************)
(* C12: in the double-end-token packer, whenever sequence_length >= 2*S    *)
(* the combined row (2*S boundary values plus the trimmed content) has at  *)
(* most sequence_length entries, so the final step only appends pad_value: *)
(* the returned row starts with the whole combined row, every trimmed      *)
(* token and all 2*S boundary values included, its last entry before the   *)
(* padding is the closing end_value, and everything after is pad_value.    *)
(***************************************************************************)
C12_PadOnly ==
    (Done /\ packer.cls = Roberta /\ packer.sequence_length >= 2 * NumSegs)
        => \A b \in Examples :
              LET out == OutRows(token_ids)[b]
                  n == Len(combined[b])
              IN
              /\ n = Sum(Kept(b)) + 2 * NumSegs
              /\ n <= packer.sequence_length
              /\ SubSeq(out, 1, n) = combined[b]
              /\ out[n] = packer.end_value
              /\ out[1] = packer.start_value
              /\ \A j \in (n + 1)..Len(out) : out[j] = packer.pad_value

C12_Witness ==
    /\ Done
    /\ packer.cls = Roberta
    /\ NumSegs = 2
    /\ Sum(Given(1)) > RobertaBudget
    /\ RobertaBudget >= 1
    /\ Len(combined[1]) = packer.sequence_length
    /\ OutRows(token_ids)[1] = combined[1]

====
